---- MODULE Spec2Model ----
(***************************************************************************)
(* Model of controllers/cloudflaretunnel_controller.go: one reconciler     *)
(* running reconcile passes for one CloudflareTunnel instance against the  *)
(* Kubernetes API server and the Cloudflare provider.  One action per      *)
(* function of the pipeline; every external call may fail.                 *)
(***************************************************************************)
EXTENDS Integers, Sequences, FiniteSets, TLC

(* ---------------------------- bounds ----------------------------------- *)
MaxTunnels == 4   \* tunnels the provider can hold (identifier pool 1..MaxTunnels)
MaxFaults == 2    \* external calls that may still fail
MaxDNS == 3       \* DNS records the zone can hold

(* --------------------------- constants --------------------------------- *)
NoID == 0                      \* the empty string "" of a tunnel identifier
Empty == ""                    \* the empty string of a text field
Nil == <<>>                    \* the zero value of a structured field
CNAMESuffix == "cfargotunnel"  \* constants.CNAMESuffix
Name == "tun"
Namespace == "ns"
OtherName == "other"
NoOwner == "none"
Absent == [absent |-> TRUE]

\* cloudflareTunnel.Spec; TokenSecretName is filled in per initial state
SpecFields ==
    [Zone |-> "example.com", Domain |-> "t.example.com",
     Service |-> [Name |-> "web", Namespace |-> "default", Port |-> 80, Protocol |-> "http"],
     Replicas |-> 2]

Kinds == {"Secret", "ConfigMap", "Deployment"}

\* mutant: the config resource is synced before the target is resolved
StepsConfigFirst ==
    <<"Reconcile", "fetchDecodeSecret", "createTunnelRemote", "createSecret",
      "createConfigMap", "getTargetURL", "createDeployment", "createDNSCNAME">>

\* the functions of a pass in the order Reconcile calls them (lines 72-116)
Steps == <<"Reconcile", "fetchDecodeSecret", "createTunnelRemote", "createSecret",
           "getTargetURL", "createConfigMap", "createDeployment", "createDNSCNAME">>

VARIABLES
    pc,          \* position of the pass: the function about to run, or idle/done/error/panic
    failedAt,    \* the function that returned the error of the pass ("" if none)
    r,           \* r.TunnelExpanded
    loc,         \* locals of Reconcile: url, secretCreate, configMapCreate
    cr,          \* the stored CloudflareTunnel object (Name, Namespace, Spec, Status)
    credSecret,  \* the secret named by TokenSecretName: "absent" or the set of its data keys
    targetService, \* the target service: Absent or [Type, Ports, Ingress]
    children,    \* cluster: key (kind, and name when not Name) -> Absent or the stored object
    tunnels,     \* provider: set of [id, name, deleted, secret]
    dns,         \* provider: set of [id, type, name, content]
    calls,       \* external calls issued by the current pass, in order
    faultsLeft,  \* external failures still to come
    created,     \* identifiers of the tunnels made by CreateTunnel (history)
    ensured,     \* identifier assigned at line 240 in the current pass (history)
    prevEnsured, \* identifier assigned at line 240 by the latest earlier pass that got there
    prevResult,  \* how the pass before the current one ended ("idle": there was none)
    dnsCreated,  \* identifiers of the records made by CreateDNSRecord (history)
    parked       \* the invocation of Reconcile that is not running now: Absent, or its
                 \* pc, failedAt, loc, cr, calls, ensured, prevEnsured, prevResult

vars == <<pc, failedAt, r, loc, cr, credSecret, targetService, children, tunnels, dns,
          calls, faultsLeft, created, ensured, prevEnsured, prevResult, dnsCreated,
          parked>>

env == <<cr, credSecret, targetService, parked>>
hist == <<created, ensured, prevEnsured, prevResult>>

(* ------------------------- pure helpers -------------------------------- *)
\* one external call of the current pass
Call(step, op, arg) == [step |-> step, op |-> op, arg |-> arg]

\* position of a function in the order Reconcile calls them (lines 72-116)
StepIdx(step) == CHOOSE i \in 1..Len(Steps) : Steps[i] = step

NextStep(step) ==
    IF StepIdx(step) = Len(Steps) THEN "done" ELSE Steps[StepIdx(step) + 1]

\* mutant: the error of a function is dropped and the next function runs
ReturnIgnoringErr(step, err) == NextStep(step)

\* Reconcile's `if err != nil { return ctrl.Result{}, err }` after every call
Return(step, err) == IF err THEN "error" ELSE NextStep(step)

\* base64.StdEncoding: encoding wraps, decoding fails on anything not encoded
B64Encode(x) == <<"b64", x>>
B64Valid(s) == Len(s) = 2 /\ s[1] = "b64"
B64Decode(s) == s[2]

\* generateTunnelSecret: 32 random bytes, base64 encoded
generateTunnelSecret == B64Encode("rand32")

\* the connector token the provider hands out for a tunnel
ProviderToken(t) == B64Encode(<<"token", t.id, t.secret>>)

\* mutant: the list parameters leave out the name
ListTunnelsNoName(name, uuid) ==
    {t \in tunnels : ~t.deleted /\ (uuid = NoID \/ t.id = uuid)}

\* mutant: the recorded identifier is not put in the list parameters
ListTunnelsNoUUID(name, uuid) ==
    {t \in tunnels : ~t.deleted /\ t.name = name}

\* cf.Tunnels with TunnelListParams{Name, IsDeleted: false, UUID}
ListTunnels(name, uuid) ==
    {t \in tunnels : ~t.deleted /\ t.name = name /\ (uuid = NoID \/ t.id = uuid)}

\* mutant: two or more matches are not an error, the first is used
TunnelDecisionPickFirst(n) ==
    IF n >= 1 THEN "reuse" ELSE "create"

\* mutant: a single match is not reused
TunnelDecisionNoReuse(n) ==
    IF n >= 2 THEN "ambiguous" ELSE "create"

\* the branch taken on the number of tunnels listed (lines 211-239)
TunnelDecision(n) ==
    IF n >= 2 THEN "ambiguous" ELSE IF n = 1 THEN "reuse" ELSE "create"

\* the identifier the provider gives a new tunnel
FreshTunnelID ==
    CHOOSE i \in 1..MaxTunnels :
        /\ i \notin {t.id : t \in tunnels}
        /\ \A j \in 1..(i - 1) : j \in {t.id : t \in tunnels}

FreshDNSID ==
    CHOOSE i \in 1..MaxDNS :
        /\ i \notin {d.id : d \in dns}
        /\ \A j \in 1..(i - 1) : j \in {d.id : d \in dns}

\* mutant: the record list is filtered by the zone name instead of the domain
ListDNSByZone(type, name) == {d \in dns : d.type = type /\ d.name = SpecFields.Zone}

\* mutant: only records that already point at a tunnel count as present
ListDNSPointingAtTunnel(type, name) ==
    {d \in dns : d.type = type /\ d.name = name /\ d.content[2] = CNAMESuffix}

\* r.DNSRecords(zoneID, DNSRecord{Type: "CNAME", Name: r.Domain})
ListDNS(type, name) == {d \in dns : d.type = type /\ d.name = name}

\* mutant: the content is the suffix alone
CNAMERecordNoTunnel(rr) ==
    [id |-> FreshDNSID, type |-> "CNAME", name |-> rr.Spec.Domain,
     content |-> <<NoID, CNAMESuffix>>]

\* the record createDNSCNAME creates (lines 277-282)
CNAMERecord(rr) ==
    [id |-> FreshDNSID, type |-> "CNAME", name |-> rr.Spec.Domain,
     content |-> <<rr.TunnelID, CNAMESuffix>>]

\* mutant: the object is left without an owner reference
SetControllerReferenceNoop(owner, obj) == obj

\* ctrl.SetControllerReference(&cloudflareTunnel, obj, r.Scheme)
SetControllerReference(owner, obj) == [obj EXCEPT !.owner = owner.Name]

\* the objects of one kind are stored by namespace and name: the key of an object named
\* Name is its kind, the key of another is its name and kind
Key(obj) == IF obj.name = Name THEN obj.kind ELSE obj.name \o "/" \o obj.kind

ChildKeys == Kinds \cup {OtherName \o "/" \o k : k \in Kinds}

\* mutant: an update of a present object only patches its owner reference
WriteObjectPatch(store, obj) ==
    IF store[Key(obj)] = Absent
    THEN [store EXCEPT ![Key(obj)] = obj]
    ELSE [store EXCEPT ![Key(obj)].owner = obj.owner]

\* mutant: the write replaces the children of the instance by the object written
WriteObjectDropOthers(store, obj) ==
    [k \in DOMAIN store |-> IF k = Key(obj) THEN obj ELSE Absent]

\* r.Create / r.Update of an object: the store holds the object given, whole
WriteObject(store, obj) == [store EXCEPT ![Key(obj)] = obj]

\* models.Secret(SecretModel{...}).GetSecret() (lines 295-300)
SecretModel(rr) ==
    [kind |-> "Secret", name |-> rr.Name, namespace |-> rr.Namespace, owner |-> NoOwner,
     data |-> [TunnelSecret |-> rr.TunnelSecret, TunnelID |-> rr.TunnelID]]

\* models.ConfigMap(ConfigMapModel{...}).GetConfigMap() (lines 333-339)
ConfigMapModel(rr, url) ==
    [kind |-> "ConfigMap", name |-> rr.Name, namespace |-> rr.Namespace, owner |-> NoOwner,
     data |-> [Service |-> url, TunnelID |-> rr.TunnelID, Domain |-> rr.Spec.Domain]]

\* models.Deployment(DeploymentModel{...}).GetDeployment() (lines 375-382)
DeploymentModel(rr, secret, configMap) ==
    [kind |-> "Deployment", name |-> rr.Name, namespace |-> rr.Namespace, owner |-> NoOwner,
     data |-> [Replicas |-> rr.Spec.Replicas, TunnelID |-> rr.TunnelID,
               Secret |-> secret, ConfigMap |-> configMap]]

\* the port scan of getTargetURL (lines 423-430): the matching port, or the zero value
ScanPorts(svc, port) ==
    IF \E i \in 1..Len(svc.Ports) : svc.Ports[i] = port THEN port ELSE 0

\* `&port == nil` (line 431): the address of a local variable is never nil
PortIsNil(port) == FALSE

\* strconv.Itoa(int(port))
Itoa(n) == ToString(n)

\* mutant: the host of a LoadBalancer is its last ingress address
TargetURLLastIngress(rr, svc) ==
    IF svc.Type = "LoadBalancer"
    THEN rr.Spec.Service.Protocol \o "://" \o svc.Ingress[Len(svc.Ingress)] \o ":"
            \o Itoa(rr.Spec.Service.Port)
    ELSE rr.Spec.Service.Protocol \o "://" \o rr.Spec.Service.Name \o "."
            \o rr.Spec.Service.Namespace \o ":" \o Itoa(rr.Spec.Service.Port)

\* the URL getTargetURL returns (lines 437-443); the caller has checked Ingress
TargetURL(rr, svc) ==
    IF svc.Type = "LoadBalancer"
    THEN rr.Spec.Service.Protocol \o "://" \o svc.Ingress[1] \o ":"
            \o Itoa(rr.Spec.Service.Port)
    ELSE rr.Spec.Service.Protocol \o "://" \o rr.Spec.Service.Name \o "."
            \o rr.Spec.Service.Namespace \o ":" \o Itoa(rr.Spec.Service.Port)

(* --------------------------- initial states ---------------------------- *)
SeedTunnel(i, n, d) == [id |-> i, name |-> n, deleted |-> d, secret |-> B64Encode("seed")]

\* what the provider may hold before the first pass (it allows duplicate names)
TunnelSeeds ==
    { {},
      {SeedTunnel(1, Name, FALSE)},
      {SeedTunnel(1, Name, FALSE), SeedTunnel(2, Name, FALSE)},
      {SeedTunnel(1, Name, TRUE)},
      {SeedTunnel(1, OtherName, FALSE)},
      {SeedTunnel(1, Name, TRUE), SeedTunnel(2, Name, FALSE)} }

DNSSeeds ==
    { {},
      {[id |-> 1, type |-> "CNAME", name |-> SpecFields.Domain, content |-> <<NoID, "elsewhere">>]},
      {[id |-> 1, type |-> "A", name |-> SpecFields.Domain, content |-> <<NoID, "10.1.1.1">>]} }

StaleObject(k) ==
    [kind |-> k, name |-> Name, namespace |-> Namespace, owner |-> NoOwner,
     data |-> [stale |-> TRUE]]

\* the child resources before the first pass: none, or objects of the instance's name
ChildSeeds ==
    { [k \in ChildKeys |-> Absent],
      [k \in ChildKeys |-> IF k \in Kinds THEN StaleObject(k) ELSE Absent],
      [k \in ChildKeys |-> IF k = "Secret" THEN StaleObject(k) ELSE Absent] }

ServiceSeeds ==
    { Absent,
      [Type |-> "ClusterIP", Ports |-> <<443, 80>>, Ingress |-> <<>>],
      [Type |-> "ClusterIP", Ports |-> <<443>>, Ingress |-> <<>>],
      [Type |-> "LoadBalancer", Ports |-> <<80, 8080>>, Ingress |-> <<"10.0.0.5", "10.0.0.6">>],
      [Type |-> "LoadBalancer", Ports |-> <<80>>, Ingress |-> <<>>] }

\* the Spec.Service of the instance: the default, and one asking for https on 8080
ServiceRefs ==
    { SpecFields.Service,
      [Name |-> "web", Namespace |-> "default", Port |-> 8080, Protocol |-> "https"] }

\* <<TokenSecretName, the secret of that name>>
CredSeeds ==
    { <<Empty, Absent>>,
      <<"cf-creds", Absent>>,
      <<"cf-creds", [token |-> "tok"]>>,
      <<"cf-creds", [accountID |-> "acct"]>>,
      <<"cf-creds", [token |-> "tok", accountID |-> "acct"]>> }

NoExpanded ==
    [Spec |-> [TokenSecretName |-> Empty], Name |-> Empty, Namespace |-> Empty,
     TunnelID |-> NoID, TunnelSecret |-> Nil, AccountToken |-> Empty, AccountTag |-> Empty,
     API |-> FALSE]

NoLocals == [url |-> Empty, secretCreate |-> Absent, configMapCreate |-> Absent]

\* the states before the first pass; knownIDs are the identifiers the status may record
InitWith(knownIDs) ==
    /\ pc = "idle"
    /\ failedAt = ""
    /\ r = NoExpanded
    /\ loc = NoLocals
    /\ \E c \in CredSeeds :
          /\ credSecret = c[2]
          /\ \E id \in knownIDs, sv \in ServiceRefs :
                cr = [Name |-> Name, Namespace |-> Namespace,
                      Spec |-> [SpecFields EXCEPT !.Service = sv] @@ [TokenSecretName |-> c[1]],
                      Status |-> [TunnelID |-> id]]
    /\ targetService \in ServiceSeeds
    /\ children \in ChildSeeds
    /\ tunnels \in TunnelSeeds
    /\ dns \in DNSSeeds
    /\ calls = <<>>
    /\ faultsLeft = MaxFaults
    /\ created = {}
    /\ ensured = NoID
    /\ prevEnsured = NoID
    /\ prevResult = "idle"
    /\ dnsCreated = {}
    /\ parked = Absent

\* a CloudflareTunnel as the API server stores it when nothing wrote its status
Init == InitWith({NoID})

\* a CloudflareTunnel whose status records a tunnel identifier
InitKnown ==
    /\ InitWith(0..MaxTunnels)
    /\ cr.Status.TunnelID \in {NoID} \cup {t.id : t \in tunnels}

(* ------------------------------ actions -------------------------------- *)
\* an external call fails: one of the failures still to come
Fault == faultsLeft > 0 /\ faultsLeft' = faultsLeft - 1
NoFault == faultsLeft' = faultsLeft

\* a function returns to Reconcile: err is whether it returned an error
Finish(step, err, newCalls) ==
    /\ pc' = Return(step, err)
    /\ failedAt' = IF err THEN step ELSE failedAt
    /\ calls' = calls \o newCalls

\* Reconcile, lines 65-83: fetch the CloudflareTunnel and rebuild r.TunnelExpanded
StartPass ==
    /\ pc \in {"idle", "done", "error", "panic"}
    /\ parked # Absent => pc = "idle"   \* two invocations in flight: one pass of each
    /\ Cardinality(tunnels) < MaxTunnels
    /\ Cardinality(dns) < MaxDNS
    /\ prevResult' = pc
    /\ prevEnsured' = IF ensured # NoID THEN ensured ELSE prevEnsured
    /\ ensured' = NoID
    /\ loc' = NoLocals
    /\ \/ /\ Fault
          /\ pc' = "error"
          /\ failedAt' = "Reconcile"
          /\ calls' = <<Call("Reconcile", "Get", "CloudflareTunnel")>>
          /\ r' = r
       \/ /\ NoFault
          /\ pc' = NextStep("Reconcile")
          /\ failedAt' = ""
          /\ calls' = <<Call("Reconcile", "Get", "CloudflareTunnel")>>
          /\ r' = [NoExpanded EXCEPT !.Spec = cr.Spec, !.Name = cr.Name,
                                     !.Namespace = cr.Namespace,
                                     !.TunnelID = cr.Status.TunnelID]
    /\ UNCHANGED <<env, children, tunnels, dns, created, dnsCreated>>

\* fetchDecodeSecret, lines 130-173
FetchDecodeSecret ==
    /\ pc = "fetchDecodeSecret"
    /\ LET step == "fetchDecodeSecret"
           get == <<Call(step, "Get", "TokenSecret")>>
       IN  \/ /\ r.Spec.TokenSecretName = Empty
              /\ NoFault /\ Finish(step, TRUE, <<>>) /\ r' = r
           \/ /\ r.Spec.TokenSecretName # Empty
              /\ Fault /\ Finish(step, TRUE, get) /\ r' = r
           \/ /\ r.Spec.TokenSecretName # Empty
              /\ credSecret = Absent
              /\ NoFault /\ Finish(step, TRUE, get) /\ r' = r
           \/ /\ r.Spec.TokenSecretName # Empty
              /\ credSecret # Absent
              /\ "token" \notin DOMAIN credSecret \/ "accountID" \notin DOMAIN credSecret
              /\ NoFault /\ Finish(step, TRUE, get) /\ r' = r
           \/ /\ r.Spec.TokenSecretName # Empty
              /\ credSecret # Absent
              /\ "token" \in DOMAIN credSecret /\ "accountID" \in DOMAIN credSecret
              /\ NoFault /\ Finish(step, FALSE, get)
              /\ r' = [r EXCEPT !.AccountTag = credSecret.accountID,
                                !.AccountToken = credSecret.token]
    /\ UNCHANGED <<loc, env, children, tunnels, dns, hist, dnsCreated>>

\* what cf.TunnelToken may answer for tunnel t: its token, or text that is not base64
TokenAnswers(t) == {ProviderToken(t), <<"garbage">>}

\* createTunnelRemote from line 240 on: adopt tunnel t and fetch its connector token
AdoptTunnel(t, before) ==
    LET step == "createTunnelRemote"
        token == <<Call(step, "TunnelToken", t.id)>>
    IN  /\ ensured' = t.id
        /\ \/ \* cf.TunnelToken fails
              /\ Fault /\ Finish(step, TRUE, before \o token)
              /\ r' = [r EXCEPT !.API = TRUE, !.TunnelID = t.id]
           \/ \E tok \in TokenAnswers(t) :
                 IF B64Valid(tok)
                 THEN /\ NoFault /\ Finish(step, FALSE, before \o token)
                      /\ r' = [r EXCEPT !.API = TRUE, !.TunnelID = t.id,
                                        !.TunnelSecret = B64Decode(tok)]
                 ELSE /\ Fault /\ Finish(step, TRUE, before \o token)
                      /\ r' = [r EXCEPT !.API = TRUE, !.TunnelID = t.id]

\* createTunnelRemote, lines 175-257
CreateTunnelRemote ==
    /\ pc = "createTunnelRemote"
    /\ LET step == "createTunnelRemote"
           matches == ListTunnels(r.Name, r.TunnelID)
           decision == TunnelDecision(Cardinality(matches))
           list == <<Call(step, "Tunnels", <<r.Name, r.TunnelID>>)>>
           new == [id |-> FreshTunnelID, name |-> r.Name, deleted |-> FALSE,
                   secret |-> generateTunnelSecret]
           create == <<Call(step, "CreateTunnel", r.Name)>>
       IN  \/ \* cloudflare.NewWithAPIToken fails; it refuses an empty token
              /\ IF r.AccountToken = Empty THEN NoFault ELSE Fault
              /\ Finish(step, TRUE, <<>>)
              /\ r' = r /\ UNCHANGED <<tunnels, created, ensured>>
           \/ \* cf.Tunnels fails
              /\ r.AccountToken # Empty
              /\ Fault /\ Finish(step, TRUE, list)
              /\ r' = [r EXCEPT !.API = TRUE] /\ UNCHANGED <<tunnels, created, ensured>>
           \/ /\ r.AccountToken # Empty
              /\ decision = "ambiguous"
              /\ NoFault /\ Finish(step, TRUE, list)
              /\ r' = [r EXCEPT !.API = TRUE] /\ UNCHANGED <<tunnels, created, ensured>>
           \/ /\ r.AccountToken # Empty
              /\ decision = "reuse"
              /\ \E t \in matches : AdoptTunnel(t, list)
              /\ UNCHANGED <<tunnels, created>>
           \/ \* generateTunnelSecret or cf.CreateTunnel fails
              /\ r.AccountToken # Empty
              /\ decision = "create"
              /\ \E cs \in {<<>>, create} :
                    Fault /\ Finish(step, TRUE, list \o cs)
              /\ r' = [r EXCEPT !.API = TRUE] /\ UNCHANGED <<tunnels, created, ensured>>
           \/ /\ r.AccountToken # Empty
              /\ decision = "create"
              /\ tunnels' = tunnels \cup {new}
              /\ created' = created \cup {new.id}
              /\ AdoptTunnel(new, list \o create)
    /\ UNCHANGED <<loc, env, children, dns, prevEnsured, prevResult, dnsCreated>>

\* line 319 (and 361, 401): after a successful create the function returns the
\* not-found error of the fetch, `return nil, err`
ErrAfterCreate == TRUE

\* createSecret / createConfigMap / createDeployment from the owner reference on
\* (lines 302-327, 344-369, 384-409); slot is the local of Reconcile that takes the
\* object returned ("" when Reconcile drops it)
CreateOrUpdate(step, desired, slot) ==
    LET kind == desired.kind
        obj == SetControllerReference(cr, desired)
        okLoc == IF slot = "" THEN loc ELSE [loc EXCEPT ![slot] = obj]
        stamp == <<Call(step, "SetControllerReference", [kind |-> kind, ok |-> TRUE])>>
        noStamp == <<Call(step, "SetControllerReference", [kind |-> kind, ok |-> FALSE])>>
        get == stamp \o <<Call(step, "Get", kind)>>
        create == <<Call(step, "Create", obj)>>
        update == <<Call(step, "Update", obj)>>
    IN  \/ \* GetConfigMap fails (lines 340-342)
           /\ kind = "ConfigMap"
           /\ Fault /\ Finish(step, TRUE, <<>>)
           /\ UNCHANGED <<children, loc>>
        \/ \* ctrl.SetControllerReference fails
           /\ Fault /\ Finish(step, TRUE, noStamp)
           /\ UNCHANGED <<children, loc>>
        \/ \* r.Get fails with something else than not-found
           /\ Fault /\ Finish(step, TRUE, get)
           /\ UNCHANGED <<children, loc>>
        \/ /\ children[Key(obj)] = Absent
           /\ Fault /\ Finish(step, TRUE, get \o create)
           /\ UNCHANGED <<children, loc>>
        \/ /\ children[Key(obj)] = Absent
           /\ NoFault /\ Finish(step, ErrAfterCreate, get \o create)
           /\ children' = WriteObject(children, obj)
           /\ loc' = IF ErrAfterCreate THEN loc ELSE okLoc
        \/ /\ children[Key(obj)] # Absent
           /\ Fault /\ Finish(step, TRUE, get \o update)
           /\ UNCHANGED <<children, loc>>
        \/ /\ children[Key(obj)] # Absent
           /\ NoFault /\ Finish(step, FALSE, get \o update)
           /\ children' = WriteObject(children, obj)
           /\ loc' = okLoc

\* createSecret, lines 291-328
CreateSecret ==
    /\ pc = "createSecret"
    /\ CreateOrUpdate("createSecret", SecretModel(r), "secretCreate")
    /\ UNCHANGED <<r, env, tunnels, dns, hist, dnsCreated>>

\* getTargetURL, lines 412-444
GetTargetURL ==
    /\ pc = "getTargetURL"
    /\ LET step == "getTargetURL"
           get == <<Call(step, "Get", "Service")>>
           port == ScanPorts(targetService, r.Spec.Service.Port)
       IN  \/ /\ Fault /\ Finish(step, TRUE, get) /\ loc' = loc
           \/ /\ targetService = Absent
              /\ NoFault /\ Finish(step, TRUE, get) /\ loc' = loc
           \/ \* Ingress[0] of an empty list: index out of range
              /\ targetService # Absent
              /\ ~PortIsNil(port)
              /\ targetService.Type = "LoadBalancer" /\ targetService.Ingress = <<>>
              /\ NoFault
              /\ pc' = "panic" /\ failedAt' = step /\ calls' = calls \o get /\ loc' = loc
           \/ /\ targetService # Absent
              /\ NoFault
              /\ IF PortIsNil(port)
                 THEN \* line 433 returns the nil err of line 415
                      Finish(step, FALSE, get) /\ loc' = [loc EXCEPT !.url = Empty]
                 ELSE /\ targetService.Type = "LoadBalancer" => targetService.Ingress # <<>>
                      /\ Finish(step, FALSE, get)
                      /\ loc' = [loc EXCEPT !.url = TargetURL(r, targetService)]
    /\ UNCHANGED <<r, env, children, tunnels, dns, hist, dnsCreated>>

\* createConfigMap, lines 330-370
CreateConfigMap ==
    /\ pc = "createConfigMap"
    /\ CreateOrUpdate("createConfigMap", ConfigMapModel(r, loc.url), "configMapCreate")
    /\ UNCHANGED <<r, env, tunnels, dns, hist, dnsCreated>>

\* createDeployment, lines 372-410
CreateDeployment ==
    /\ pc = "createDeployment"
    /\ CreateOrUpdate("createDeployment",
                      DeploymentModel(r, loc.secretCreate, loc.configMapCreate), "")
    /\ UNCHANGED <<r, env, tunnels, dns, hist, dnsCreated>>

\* createDNSCNAME, lines 259-289
CreateDNSCNAME ==
    /\ pc = "createDNSCNAME"
    /\ LET step == "createDNSCNAME"
           zone == <<Call(step, "ZoneIDByName", r.Spec.Zone)>>
           list == <<Call(step, "DNSRecords", r.Spec.Domain)>>
           create == <<Call(step, "CreateDNSRecord", CNAMERecord(r))>>
           found == ListDNS("CNAME", r.Spec.Domain)
       IN  \/ /\ Fault /\ Finish(step, TRUE, zone)
              /\ UNCHANGED <<dns, dnsCreated>>
           \/ /\ Fault /\ Finish(step, TRUE, zone \o list)
              /\ UNCHANGED <<dns, dnsCreated>>
           \/ /\ found # {}
              /\ NoFault /\ Finish(step, FALSE, zone \o list)
              /\ UNCHANGED <<dns, dnsCreated>>
           \/ /\ found = {}
              /\ Fault /\ Finish(step, TRUE, zone \o list \o create)
              /\ UNCHANGED <<dns, dnsCreated>>
           \/ /\ found = {}
              /\ NoFault /\ Finish(step, FALSE, zone \o list \o create)
              /\ dns' = dns \cup {CNAMERecord(r)}
              /\ dnsCreated' = dnsCreated \cup {CNAMERecord(r).id}
    /\ UNCHANGED <<r, loc, env, children, tunnels, hist>>

Next ==
    \/ StartPass
    \/ FetchDecodeSecret
    \/ CreateTunnelRemote
    \/ CreateSecret
    \/ GetTargetURL
    \/ CreateConfigMap
    \/ CreateDeployment
    \/ CreateDNSCNAME

\* passes for an instance whose status nothing has written
Spec == Init /\ [][Next]_vars

\* passes for an instance whose status may record a tunnel identifier
SpecKnown == InitKnown /\ [][Next]_vars

\* the scheduler keeps re-invoking Reconcile, and a pass runs to its end
SpecLive == Init /\ [][Next]_vars /\ WF_vars(Next)

(* ------------- two instances reconciled by the one reconciler ---------- *)
\* a second CloudflareTunnel of the namespace, with its own name and domain
OtherInstance ==
    [Name |-> OtherName, Namespace |-> Namespace,
     Spec |-> [SpecFields EXCEPT !.Domain = "o.example.com"] @@ [TokenSecretName |-> "cf-creds"],
     Status |-> [TunnelID |-> NoID]]

\* what an invocation of Reconcile keeps on its own stack (and what is recorded of it)
Invocation ==
    [pc |-> pc, failedAt |-> failedAt, loc |-> loc, cr |-> cr, calls |-> calls,
     ensured |-> ensured, prevEnsured |-> prevEnsured, prevResult |-> prevResult]

\* the worker of the other instance is scheduled: the invocations change places, and
\* r.TunnelExpanded, a field of the one reconciler (lines 43-48), stays what the last
\* assignment of line 78 made it
Switch ==
    /\ parked # Absent
    /\ parked' = Invocation
    /\ pc' = parked.pc
    /\ failedAt' = parked.failedAt
    /\ loc' = parked.loc
    /\ cr' = parked.cr
    /\ calls' = parked.calls
    /\ ensured' = parked.ensured
    /\ prevEnsured' = parked.prevEnsured
    /\ prevResult' = parked.prevResult
    /\ UNCHANGED <<r, credSecret, targetService, children, tunnels, dns, faultsLeft,
                   created, dnsCreated>>

\* two instances with valid credentials and a target service that exposes the port;
\* neither has been reconciled
InitConc ==
    /\ pc = "idle"
    /\ failedAt = ""
    /\ r = NoExpanded
    /\ loc = NoLocals
    /\ cr = [Name |-> Name, Namespace |-> Namespace,
             Spec |-> SpecFields @@ [TokenSecretName |-> "cf-creds"],
             Status |-> [TunnelID |-> NoID]]
    /\ parked = [pc |-> "idle", failedAt |-> "", loc |-> NoLocals, cr |-> OtherInstance,
                 calls |-> <<>>, ensured |-> NoID, prevEnsured |-> NoID,
                 prevResult |-> "idle"]
    /\ credSecret = [token |-> "tok", accountID |-> "acct"]
    /\ targetService = [Type |-> "ClusterIP", Ports |-> <<443, 80>>, Ingress |-> <<>>]
    /\ children \in ChildSeeds
    /\ tunnels \in {{}, {SeedTunnel(1, Name, FALSE)}}
    /\ dns = {}
    /\ calls = <<>>
    /\ faultsLeft = MaxFaults
    /\ created = {}
    /\ ensured = NoID
    /\ prevEnsured = NoID
    /\ prevResult = "idle"
    /\ dnsCreated = {}

NextConc ==
    \/ Next
    \/ Switch

\* passes for two instances, run by workers of the one reconciler that interleave
\* between the functions Reconcile calls
SpecConc == InitConc /\ [][NextConc]_vars

TypeOK ==
    /\ pc \in {"idle", "done", "error", "panic"} \cup {Steps[i] : i \in 2..Len(Steps)}
    /\ faultsLeft \in 0..MaxFaults
    /\ Cardinality(tunnels) <= MaxTunnels
    /\ Cardinality(dns) <= MaxDNS

(* --------------------- definitions used by the claims ------------------ *)
Ops == {calls[i].op : i \in 1..Len(calls)}

\* the non-deleted tunnels the provider held under the instance's name before any pass
SeededNamed == {t \in tunnels : t.id \notin created /\ t.name = cr.Name /\ ~t.deleted}

\* the tunnels the lookup of a pass matches
Matches == ListTunnels(cr.Name, cr.Status.TunnelID)

PassOver == pc \in {"done", "error", "panic"}

(* ------------------------------ C1 ------------------------------------- *)
\* C1: when the provider held no tunnel of the instance's name at first and
\* createTunnelRemote has assigned a tunnel identifier in two successive invocations,
\* the second identifier is the first one and CreateTunnel was called exactly once
\* in total.
C1_EnsureTwiceOneTunnel ==
    (SeededNamed = {} /\ prevEnsured # NoID /\ ensured # NoID)
        => (ensured = prevEnsured /\ Cardinality(created) = 1)

\* the second invocation has returned without error
C1_Witness ==
    /\ SeededNamed = {} /\ prevEnsured # NoID /\ ensured # NoID
    /\ pc = "createSecret"

(* ------------------------------ C2 ------------------------------------- *)
\* C2: in a pass whose tunnel list holds two or more non-deleted matches,
\* createTunnelRemote returns an error, and the pass issues no CreateTunnel, no
\* TunnelToken, no create or update of a child resource and no CreateDNSRecord; no
\* tunnel is adopted.
C2_AmbiguityIsError ==
    ("Tunnels" \in Ops /\ Cardinality(Matches) >= 2)
        => /\ pc = "error" /\ failedAt = "createTunnelRemote"
           /\ ensured = NoID
           /\ Ops \cap {"CreateTunnel", "TunnelToken", "Create", "Update",
                        "CreateDNSRecord"} = {}

\* the list succeeded (no call failed so far) and returned two tunnels
C2_Witness ==
    /\ "Tunnels" \in Ops /\ Cardinality(Matches) = 2
    /\ faultsLeft = MaxFaults
    /\ pc = "error"

(* ------------------------------ C3 ------------------------------------- *)
\* C3: a tunnel made by CreateTunnel is the only non-deleted tunnel of its name;
\* CreateTunnel is never issued for a name that a non-deleted tunnel already has.
C3_CreatedTunnelIsUnique ==
    \A t \in tunnels :
        t.id \in created
            => \A u \in tunnels : (u.name = t.name /\ ~u.deleted) => u = t

(* ------------------------------ C4 ------------------------------------- *)
\* every lookup of the pass finds what it needs: credentials, target service, one tunnel
CredsOK ==
    /\ cr.Spec.TokenSecretName # Empty
    /\ credSecret # Absent
    /\ {"token", "accountID"} \subseteq DOMAIN credSecret

ServiceOK ==
    /\ targetService # Absent
    /\ targetService.Type = "LoadBalancer" => targetService.Ingress # <<>>

EnvGood == CredsOK /\ ServiceOK /\ Cardinality(Matches) <= 1

\* the objects the three functions build from the resolved state of the pass
Desired ==
    [Secret |-> SetControllerReference(cr, SecretModel(r)),
     ConfigMap |-> SetControllerReference(cr, ConfigMapModel(r, loc.url)),
     Deployment |-> SetControllerReference(cr,
                        DeploymentModel(r, loc.secretCreate, loc.configMapCreate))]

\* the current pass has issued a create of the child resource of kind k
CreatedInPass(k) ==
    \E i \in 1..Len(calls) : calls[i].op = "Create" /\ calls[i].arg.kind = k

\* C4: the first pass of an instance, with no child resource present before it and no
\* external call failing, ends in Done with the three child resources created in it.
C4_FirstPassCreatesAll ==
    (/\ PassOver /\ prevResult = "idle" /\ EnvGood /\ faultsLeft = MaxFaults
     /\ \A k \in Kinds : children[k] = Absent \/ CreatedInPass(k))
        => (pc = "done" /\ \A k \in Kinds : CreatedInPass(k))

(* ------------------------------ C8 ------------------------------------- *)
\* C8: a pass has created or updated a child resource only after getTargetURL has
\* returned a URL in that pass.
C8_NoChildWriteBeforeTarget ==
    (Ops \cap {"Create", "Update"} # {}) => loc.url # Empty

(* ------------------------------ C10 ------------------------------------ *)
\* C10: when a pass in which createTunnelRemote adopted a tunnel is over, the status
\* of the instance records that tunnel's identifier.
C10_StatusRecordsTunnel ==
    (PassOver /\ ensured # NoID) => cr.Status.TunnelID = ensured

(* ------------------------------ C7 ------------------------------------- *)
\* C7: once a function of the pipeline has returned an error the pass is over, and
\* every external call of the pass was issued by that function or an earlier one; after
\* an error of fetchDecodeSecret no provider call, no service lookup and no write
\* was issued.
C7_FailFast ==
    failedAt # ""
        => /\ pc \in {"error", "panic"}
           /\ \A i \in 1..Len(calls) : StepIdx(calls[i].step) <= StepIdx(failedAt)
           /\ failedAt = "fetchDecodeSecret"
                 => Ops \subseteq {"Get"} /\ Len(calls) <= 2

\* fetchDecodeSecret failed on a secret that lacks a key
C7_Witness ==
    /\ failedAt = "fetchDecodeSecret" /\ pc = "error"
    /\ credSecret # Absent /\ ~CredsOK
    /\ Len(calls) = 2

\* the functions of the pass in the order of their first external call
StepsCalled(cs) ==
    LET firsts == {i \in 1..Len(cs) : \A j \in 1..(i - 1) : cs[j].step # cs[i].step}
        F[n \in 0..Len(cs)] ==
            IF n = 0 THEN <<>>
            ELSE IF n \in firsts THEN Append(F[n - 1], cs[n].step) ELSE F[n - 1]
    IN  F[Len(cs)]

IsPrefix(a, b) == Len(a) <= Len(b) /\ SubSeq(b, 1, Len(a)) = a

WritesOfKinds(ks) ==
    {i \in 1..Len(calls) : calls[i].op \in {"Create", "Update"} /\ calls[i].arg.kind \in ks}

\* C8 as amended: the functions of a pass issue their calls in the order Reconcile,
\* fetchDecodeSecret, createTunnelRemote, createSecret, getTargetURL, createConfigMap,
\* createDeployment, createDNSCNAME; the config and workload resources are written only
\* after getTargetURL has returned a URL in the pass, the credential resource only after
\* a tunnel has been adopted.
C8_OrderAsCoded ==
    /\ IsPrefix(StepsCalled(calls),
                <<"Reconcile", "fetchDecodeSecret", "createTunnelRemote", "createSecret",
                  "getTargetURL", "createConfigMap", "createDeployment", "createDNSCNAME">>)
    /\ WritesOfKinds({"ConfigMap", "Deployment"}) # {} => loc.url # Empty
    /\ WritesOfKinds({"Secret"}) # {} => ensured # NoID

\* the target service is missing: the credential resource was written, nothing else
C8_Witness ==
    /\ pc = "error" /\ failedAt = "getTargetURL" /\ targetService = Absent
    /\ WritesOfKinds({"Secret"}) # {}
    /\ WritesOfKinds({"ConfigMap", "Deployment"}) = {}

(* ------------------------------ C9 ------------------------------------- *)
KindOf == [createSecret |-> "Secret", createConfigMap |-> "ConfigMap",
           createDeployment |-> "Deployment"]

\* C9: one invocation of createSecret, createConfigMap or createDeployment issues at
\* most one write, and exactly one when no call fails: a create if and only if the
\* resource was absent, an update otherwise, carrying the desired object with the
\* owner reference set; after it the stored object is that desired object and the
\* other resources are as before.  When a call fails the store is unchanged.
C9_Step ==
    pc \in DOMAIN KindOf =>
        LET k == KindOf[pc]
            new == SubSeq(calls', Len(calls) + 1, Len(calls'))
            writes == {i \in 1..Len(new) : new[i].op \in {"Create", "Update"}}
        IN  /\ Cardinality(writes) <= 1
            /\ \A i \in writes :
                  /\ new[i].arg = Desired[k]
                  /\ new[i].arg.owner = cr.Name
                  /\ new[i].op = "Create" <=> children[k] = Absent
            /\ faultsLeft' = faultsLeft
                  => /\ Cardinality(writes) = 1
                     /\ children' = [children EXCEPT ![k] = Desired[k]]
            /\ faultsLeft' # faultsLeft => children' = children

\* C9: every step of the three functions writes as C9_Step states: exactly one write
\* when no call fails, a create for an absent resource and an update for a present one,
\* leaving the desired object stored.
C9_ExactlyOneWrite == [][C9_Step]_vars

\* a pass that replaced a present credential resource and created the config resource
C9_Witness ==
    /\ \E i \in 1..Len(calls) :
          /\ calls[i].op = "Update" /\ calls[i].arg.kind = "Secret"
    /\ CreatedInPass("ConfigMap")
    /\ children["Secret"] = Desired["Secret"]
    /\ children["ConfigMap"] = Desired["ConfigMap"]
    /\ prevResult = "idle"

(* ------------------------------ C6 ------------------------------------- *)
\* C6: in a pass that follows a pass ended in Done, no step changes the tunnels, the
\* DNS records or the child resources, and the pass issues no CreateTunnel, no create
\* of a child resource and no CreateDNSRecord.
C6_Step ==
    prevResult' = "done" =>
        /\ tunnels' = tunnels /\ dns' = dns /\ children' = children
        /\ Ops' \cap {"CreateTunnel", "Create", "CreateDNSRecord"} = {}

\* C6: every step of a pass replayed after a Done pass is as C6_Step states: nothing
\* is created and the tunnels, DNS records and child resources stay as they were.
C6_IdempotentReplay == [][C6_Step]_vars

\* the replay ran to its end
C6_Witness == prevResult = "done" /\ pc = "done" /\ Len(calls) > 1

(* ------------------------------ C5 ------------------------------------- *)
Converged ==
    /\ Cardinality({t \in tunnels : t.name = cr.Name /\ ~t.deleted}) = 1
    /\ \A k \in Kinds : children[k] = Desired[k]
    /\ \E d \in dns : d.type = "CNAME" /\ d.name = cr.Spec.Domain

\* C5: when the credentials, the target service and at most one tunnel of the name
\* are there to be found, then under repeated invocation, the failures of external
\* calls being finite, a pass ends in Done with exactly one tunnel of the name, the three
\* child resources as desired and a CNAME for the domain.
C5_Converges == EnvGood ~> (pc = "done" /\ Converged)

\* converged after passes that failed
C5_Witness ==
    /\ pc = "done" /\ Converged
    /\ faultsLeft = 0 /\ prevResult = "error"
    /\ created # {}

(* ------------------------------ C11 ------------------------------------ *)
\* the target service exposes the port the spec asks for
PortExposed ==
    \E i \in 1..Len(targetService.Ports) : targetService.Ports[i] = cr.Spec.Service.Port

\* the current pass has fetched the target service
ServiceFetched ==
    \E i \in 1..Len(calls) : calls[i].step = "getTargetURL" /\ calls[i].op = "Get"

\* C11: in a pass that fetched a target service none of whose ports is the requested
\* one, getTargetURL returns an error and no URL, and the pass writes no config
\* resource, no workload resource and no DNS record.
C11_PortNotFound ==
    (ServiceFetched /\ targetService # Absent /\ ~PortExposed)
        => /\ failedAt = "getTargetURL"
           /\ loc.url = NoLocals.url
           /\ WritesOfKinds({"ConfigMap", "Deployment"}) = {}
           /\ "CreateDNSRecord" \notin Ops

(* ------------------------------ C19 ------------------------------------ *)
\* C19: getTargetURL ends with a URL or an error: once the pass has fetched the target
\* service it is at the next function with a URL, or it has ended with the error of
\* getTargetURL or of a later function; it never ends in a panic.
C19_TargetResolverReturns ==
    /\ pc # "panic"
    /\ ServiceFetched => (loc.url # NoLocals.url \/ (pc = "error" /\ failedAt = "getTargetURL"))

(* ------------------------------ C12 ------------------------------------ *)
\* the CNAME records of the instance's domain
DomainCNAMEs == {d \in dns : d.type = "CNAME" /\ d.name = cr.Spec.Domain}

\* one invocation of createDNSCNAME
C12_Step ==
    pc = "createDNSCNAME" =>
        LET new == SubSeq(calls', Len(calls) + 1, Len(calls'))
            creates == {i \in 1..Len(new) : new[i].op = "CreateDNSRecord"}
        IN  /\ Cardinality(creates) <= 1
            /\ \A i \in 1..Len(new) : new[i].op \in {"ZoneIDByName", "DNSRecords", "CreateDNSRecord"}
            /\ \A i \in creates :
                  /\ DomainCNAMEs = {}
                  /\ new[i].arg.type = "CNAME" /\ new[i].arg.name = cr.Spec.Domain
                  /\ new[i].arg.content = <<ensured, CNAMESuffix>>
            /\ DomainCNAMEs # {} => (creates = {} /\ dns' = dns)
            /\ (DomainCNAMEs = {} /\ faultsLeft' = faultsLeft)
                  => /\ Cardinality(creates) = 1
                     /\ \E i \in creates : dns' = dns \cup {new[i].arg}

\* C12: every invocation of createDNSCNAME is as C12_Step states (one CreateDNSRecord
\* with content tunnel identifier + suffix when the domain has no CNAME, none and no
\* other write when it has one, whatever its content), and CreateDNSRecord has made
\* at most one record over all passes.
C12_DNSIdempotent == [][C12_Step /\ Cardinality(dnsCreated') <= 1]_vars

\* a pass created the CNAME beside a record of another type, and a later pass ran to Done
C12_Witness ==
    /\ pc = "done" /\ prevResult = "done"
    /\ Cardinality(dnsCreated) = 1
    /\ \E d \in dns : d.type = "A"
    /\ "DNSRecords" \in Ops /\ "CreateDNSRecord" \notin Ops

(* ------------------------------ C13 ------------------------------------ *)
\* C13: when a pass is Done a CNAME of the domain exists whose content is the
\* identifier of the tunnel adopted in the pass followed by the suffix.
C13_CNAMEPointsAtTunnel ==
    pc = "done" => \E d \in DomainCNAMEs : d.content = <<ensured, CNAMESuffix>>

\* C13 as amended: when a pass is Done a CNAME of the domain exists; a record the pass
\* created has as content the identifier of the tunnel adopted in the pass followed by
\* the suffix, and when the pass created none the records are those found, with the
\* content they had.
C13_CNAMEExists ==
    pc = "done"
        => /\ DomainCNAMEs # {}
           /\ \A i \in 1..Len(calls) :
                 calls[i].op = "CreateDNSRecord"
                    => /\ calls[i].arg \in DomainCNAMEs
                       /\ calls[i].arg.content = <<ensured, CNAMESuffix>>
                       /\ ensured # NoID

\* the pass created the record
C13_Witness == pc = "done" /\ "CreateDNSRecord" \in Ops /\ DomainCNAMEs # {}

(* ------------------------------ C14 ------------------------------------ *)
\* getTargetURL has returned in this pass without an error
TargetResolved ==
    /\ ServiceFetched
    /\ pc \in {"createConfigMap", "createDeployment", "createDNSCNAME", "done"}
          \/ (pc = "error" /\ failedAt \in {"createConfigMap", "createDeployment", "createDNSCNAME"})

\* C14: when getTargetURL has returned for a service that exposes the requested port, the
\* URL is protocol://<first ingress address>:<port> for a LoadBalancer and
\* protocol://<name>.<namespace>:<port> otherwise, protocol and port as the spec gives
\* them: http://web.default:80 for web/default/80/http, https://10.0.0.5:8080 for a
\* LoadBalancer whose first ingress address is 10.0.0.5 with 8080/https.
C14_TargetURLDerivation ==
    (TargetResolved /\ PortExposed) =>
        LET sv == cr.Spec.Service
            lb == targetService.Type = "LoadBalancer"
        IN  /\ (~lb /\ sv.Port = 80 /\ sv.Protocol = "http") => loc.url = "http://web.default:80"
            /\ (~lb /\ sv.Port = 8080 /\ sv.Protocol = "https") => loc.url = "https://web.default:8080"
            /\ (lb /\ sv.Port = 80 /\ sv.Protocol = "http")
                  => (targetService.Ingress[1] = "10.0.0.5" /\ loc.url = "http://10.0.0.5:80")
            /\ (lb /\ sv.Port = 8080 /\ sv.Protocol = "https")
                  => (targetService.Ingress[1] = "10.0.0.5" /\ loc.url = "https://10.0.0.5:8080")
            /\ sv \in ServiceRefs

\* the LoadBalancer example: ingress 10.0.0.5 first of two, 8080, https
C14_Witness ==
    /\ TargetResolved /\ PortExposed
    /\ targetService.Type = "LoadBalancer" /\ Len(targetService.Ingress) = 2
    /\ cr.Spec.Service.Port = 8080
    /\ loc.url = "https://10.0.0.5:8080"

(* ------------------------------ C15 ------------------------------------ *)
ChildSteps == {"createSecret", "createConfigMap", "createDeployment"}

\* the call at position i of the pass comes after a successful stamping in its function
Stamped(i) ==
    \E j \in 1..(i - 1) :
        /\ calls[j].step = calls[i].step
        /\ calls[j].op = "SetControllerReference"
        /\ calls[j].arg.ok

\* the create or update at position i of the pass has not failed: the object is
\* stored, and an update was not the call its function failed at
WriteDone(i) ==
    /\ children[calls[i].arg.kind] # Absent
    /\ ~(calls[i].op = "Update" /\ pc = "error" /\ failedAt = calls[i].step)

\* C15: in createSecret, createConfigMap and createDeployment the owner reference is
\* stamped before the fetch and before the create or update, the object given to the
\* create or update, and the object stored when that has not failed, names the
\* instance as its owner, and when the stamping fails the function issues no fetch,
\* create or update and the pass ends in an error there.
C15_OwnerStampedBeforeWrite ==
    \A i \in 1..Len(calls) :
        /\ (calls[i].step \in ChildSteps /\ calls[i].op \in {"Get", "Create", "Update"})
              => Stamped(i)
        /\ calls[i].op \in {"Create", "Update"}
              => /\ calls[i].arg.owner = cr.Name
                 /\ WriteDone(i) => children[calls[i].arg.kind].owner = cr.Name
        /\ (calls[i].op = "SetControllerReference" /\ ~calls[i].arg.ok)
              => /\ i = Len(calls)
                 /\ pc = "error" /\ failedAt = calls[i].step
                 /\ \A j \in 1..Len(calls) : calls[j].step = calls[i].step => j = i

\* the credential resource was updated with its owner, then stamping the config
\* resource failed
C15_Witness ==
    /\ pc = "error" /\ failedAt = "createConfigMap"
    /\ "Update" \in Ops
    /\ children["Secret"].owner = cr.Name
    /\ calls[Len(calls)].op = "SetControllerReference"
    /\ children["ConfigMap"] = Absent

(* ------------------------------ C16 ------------------------------------ *)
\* the step ends the pass in a failure
FailingStep == pc \notin {"error", "panic"} /\ pc' \in {"error", "panic"}

C16_Step ==
    /\ tunnels \subseteq tunnels'
    /\ dns \subseteq dns'
    /\ \A k \in ChildKeys : children[k] # Absent => children'[k] # Absent
    /\ FailingStep => \A k \in ChildKeys : children[k] # Absent => children'[k] = children[k]
    /\ \A i \in (Len(calls) + 1)..Len(calls') : calls'[i].op \notin {"Delete", "DeleteTunnel", "DeleteDNSRecord"}

\* C16: no step of a pass removes or changes a tunnel or a DNS record or removes a
\* child resource, no step issues a delete, and the step at which a pass fails leaves
\* every child resource that existed when it began as it was.
C16_NoRollback == [][C16_Step]_vars

\* the pass created the tunnel, updated the three children and failed at the DNS step:
\* all of them are still there
C16_Witness ==
    /\ pc = "error" /\ failedAt = "createDNSCNAME"
    /\ "CreateTunnel" \in Ops
    /\ \E t \in tunnels : t.id = ensured /\ ~t.deleted
    /\ \A k \in Kinds : children[k] # Absent /\ children[k].owner = cr.Name

(* ------------------------------ C17 ------------------------------------ *)
\* the identifier the status of the instance records
knownID == cr.Status.TunnelID

\* the non-deleted tunnels of the instance's name
SameName == {t \in tunnels : t.name = cr.Name /\ ~t.deleted}

\* C17: the tunnel list of a pass is asked for with the instance's name and the
\* identifier its status records (none when the status is empty). When the status
\* records the identifier of a non-deleted tunnel of that name, a pass that has listed
\* the tunnels issues no CreateTunnel and adopts no other tunnel, and adopts that one
\* when no call has failed, however many non-deleted tunnels share the name.
C17_NarrowedByKnownID ==
    /\ \A i \in 1..Len(calls) :
          calls[i].op = "Tunnels" => calls[i].arg = <<cr.Name, knownID>>
    /\ (knownID # NoID /\ "Tunnels" \in Ops /\ (\E t \in SameName : t.id = knownID))
          => /\ "CreateTunnel" \notin Ops
             /\ ensured \in {NoID, knownID}
             /\ faultsLeft = MaxFaults
                   => (ensured = knownID /\ ~(pc = "error" /\ failedAt = "createTunnelRemote"))

\* two non-deleted tunnels share the name, the status records the first, and the pass
\* has adopted it
C17_Witness ==
    /\ knownID = 1 /\ Cardinality(SameName) = 2
    /\ ensured = 1 /\ pc = "createSecret"
    /\ "Tunnels" \in Ops

(* ------------------------------ C18 ------------------------------------ *)
\* C18: every call the running invocation has issued in its pass is made for its own
\* instance: the tunnel list and CreateTunnel with the instance's name, the child
\* resources created or updated with its name, namespace and the tunnel identifier the
\* invocation was assigned, the DNS list and record with its domain and that identifier.
C18_InstancesIsolated ==
    \A i \in 1..Len(calls) :
        LET c == calls[i]
        IN  /\ c.op = "Tunnels" => c.arg[1] = cr.Name
            /\ c.op = "CreateTunnel" => c.arg = cr.Name
            /\ c.op = "TunnelToken" => c.arg = ensured
            /\ c.op \in {"Create", "Update"}
                  => /\ c.arg.name = cr.Name /\ c.arg.namespace = cr.Namespace
                     /\ c.arg.owner = cr.Name
                     /\ c.arg.data.TunnelID = ensured
            /\ c.op = "DNSRecords" => c.arg = cr.Spec.Domain
            /\ c.op = "CreateDNSRecord"
                  => (c.arg.name = cr.Spec.Domain /\ c.arg.content = <<ensured, CNAMESuffix>>)

====
